---- MODULE Spec2Model ----
(***************************************************************************)
(* Model of the four autoencoder training scripts                          *)
(*   autoencoders/mnist_old/feedforward.py   ("feedforward")               *)
(*   convolutional_cifar.py                  ("convolutional_cifar")       *)
(*   conditional_autoencoder.py              ("conditional_autoencoder")   *)
(*   resnet_cifar.py                         ("resnet_cifar")              *)
(* Part I models main/train/test as a sequential program, one action per   *)
(* statement group.  Part II models the layer stacks and their tensor      *)
(* shapes.  Part III models the label routing of the conditional variant.  *)
(***************************************************************************)
EXTENDS Integers, Sequences, FiniteSets, TLC

VARIABLES
    script,       \* which of the four programs is running
    nTrain,       \* len(train_loader): number of training batches per epoch
    nTest,        \* len(test_loader): number of evaluation batches per epoch
    firstTest,    \* images in the first evaluation batch of this epoch
    pc,           \* position in main
    tpc,          \* position inside train() / test()
    epoch,        \* main's loop variable
    i,            \* enumerate() index inside train() / test()
    mode,         \* module mode set by model.train() / model.eval()
    grad_enabled, \* FALSE inside "with torch.no_grad()"
    params,       \* version of the model parameters (one per optimizer update)
    optSteps,     \* Adam's step counter (optimizer state)
    grad,         \* number of backward passes accumulated in .grad
    bn_stats,     \* version of the BatchNorm running statistics (buffers)
    loss,         \* the current batch's loss value
    loss_sum,     \* train_loss / test_loss of the running phase
    batch_ops,    \* tensor-library calls made for the current training batch
    dirExists,    \* whether the output folder exists
    fsLog,        \* every filesystem call made so far, <<op, path>>
    loss_fn,      \* the loss function train() and test() last called
    ckpt_log,     \* what each torch.save call wrote: path and state_dict
    net,          \* Part II/III: the network (script) or module under study
    stage,        \* Part II/III: position in the forward pass
    layer,        \* Part II: number of layers of the running stack applied
    x_shape,      \* Part II: shape of one item of the batch the loader yields
    shape,        \* Part II: shape of the tensor in flight (batch axis left out)
    batch,        \* Part II: number of items in the batch, data.size(0)
    x_range,      \* Part II: the interval the loader's batch has its values in
    value_range,  \* Part II: the interval the tensor in flight's values lie in
    labels,       \* Part III: the label vector y of the batch
    trace         \* Part III: the layers visited, each with the labels it used

loopvars == <<script, nTrain, nTest, firstTest, pc, tpc, epoch, i, mode,
              grad_enabled, params, optSteps, grad, bn_stats, loss, loss_sum,
              batch_ops, dirExists, fsLog, loss_fn, ckpt_log>>
netvars == <<net, stage, layer, x_shape, shape, batch, x_range, value_range,
             labels, trace>>
vars == <<loopvars, netvars>>

(***************************************************************************)
(* Bounds of the model.                                                    *)
(***************************************************************************)
MaxTrainBatches == 2
MaxTestBatches == 2
MaxLoss == 1
MaxImageSide == 33
MaxBatch == 2

(***************************************************************************)
(* Part I.  Hardcoded constants of the four main functions.                *)
(***************************************************************************)
Scripts == {"feedforward", "convolutional_cifar", "conditional_autoencoder",
            "resnet_cifar"}

epochs_feedforward == 10
epochs_convolutional_cifar == 20
epochs_conditional == 10
epochs_resnet_cifar == 20

epochs(s) ==
    CASE s = "feedforward" -> epochs_feedforward
      [] s = "convolutional_cifar" -> epochs_convolutional_cifar
      [] s = "conditional_autoencoder" -> epochs_conditional
      [] s = "resnet_cifar" -> epochs_resnet_cifar

test_batch_size == 100
save_model == TRUE
bottleneck == 1024

folder(s) ==
    CASE s = "feedforward" -> "feedforward"
      [] s = "convolutional_cifar" -> "convolutional_cifar"
      [] s = "conditional_autoencoder" -> "conditional"
      [] s = "resnet_cifar" ->
             "residual_cifar_" \o ToString(bottleneck) \o "_bottle"

\* Faulty variant: the checkpoint named by the epoch count instead of the epoch.
checkpoint_path_by_count(s, e) ==
    folder(s) \o "/" \o ToString(epochs(s)) \o ".pt"

\* f"{folder}/{epoch}.pt"
checkpoint_path(s, e) == folder(s) \o "/" \o ToString(e) \o ".pt"

\* f'{folder}/{epoch}.png'
output_image_path(s, e) == folder(s) \o "/" \o ToString(e) \o ".png"

\* f'{folder}/baseline{epoch}.png' (feedforward, convolutional_cifar)
baseline_prefix_path(s, e) ==
    folder(s) \o "/" \o "baseline" \o ToString(e) \o ".png"

\* f'{folder}/{epoch}baseline.png' (conditional_autoencoder, resnet_cifar)
baseline_suffix_path(s, e) ==
    folder(s) \o "/" \o ToString(e) \o "baseline.png"

data_image_path(s, e) ==
    IF s \in {"feedforward", "convolutional_cifar"}
    THEN baseline_prefix_path(s, e)
    ELSE baseline_suffix_path(s, e)

\* The scripts whose network holds BatchNorm layers with running statistics.
HasBatchNorm(s) == s \in {"conditional_autoencoder", "resnet_cifar"}

\* The number of images the sample grid is reshaped to: view(100, ...).
view_batch == 100

(***************************************************************************)
(* Initial state: the process has started, nothing has run.  The loaders'  *)
(* lengths are inputs; the output folder may or may not be left over from  *)
(* an earlier run.                                                         *)
(***************************************************************************)
NetIdle ==
    /\ net = "none"
    /\ stage = "off"
    /\ layer = 0
    /\ x_shape = <<>>
    /\ shape = <<>>
    /\ batch = 0
    /\ x_range = "none"
    /\ value_range = "none"
    /\ labels = <<>>
    /\ trace = <<>>

Init ==
    /\ script \in Scripts
    /\ nTrain \in 1..MaxTrainBatches
    /\ nTest \in 1..MaxTestBatches
    /\ firstTest = 0
    /\ dirExists \in BOOLEAN
    /\ pc = "makedirs"
    /\ tpc = "none"
    /\ epoch = 0
    /\ i = 0
    /\ mode = "train"
    /\ grad_enabled = TRUE
    /\ params = 0
    /\ optSteps = 0
    /\ grad = 0
    /\ bn_stats = 0
    /\ loss = 0
    /\ loss_sum = 0
    /\ batch_ops = <<>>
    /\ fsLog = <<>>
    /\ loss_fn = [train |-> "none", test |-> "none"]
    /\ ckpt_log = <<>>
    /\ NetIdle

(***************************************************************************)
(* main: setup.                                                            *)
(***************************************************************************)
\* Faulty variant: the folder is looked for but not created.
main_makedirs_check_only ==
    /\ pc = "makedirs"
    /\ fsLog' = Append(fsLog, <<"exists", folder(script)>>)
    /\ pc' = "build"
    /\ UNCHANGED <<script, nTrain, nTest, firstTest, tpc, epoch, i, mode,
                   grad_enabled, params, optSteps, grad, bn_stats, loss,
                   loss_sum, batch_ops, dirExists>>
    /\ UNCHANGED <<loss_fn, ckpt_log>>
    /\ UNCHANGED netvars

\* if not os.path.exists(folder): os.makedirs(folder)
main_makedirs ==
    /\ pc = "makedirs"
    /\ dirExists' = TRUE
    /\ fsLog' = IF dirExists
                THEN Append(fsLog, <<"exists", folder(script)>>)
                ELSE fsLog \o <<<<"exists", folder(script)>>,
                                <<"makedirs", folder(script)>>>>
    /\ pc' = "build"
    /\ UNCHANGED <<script, nTrain, nTest, firstTest, tpc, epoch, i, mode,
                   grad_enabled, params, optSteps, grad, bn_stats, loss,
                   loss_sum, batch_ops>>
    /\ UNCHANGED <<loss_fn, ckpt_log>>
    /\ UNCHANGED netvars

\* device, model = Autoencoder(), optimizer = Adam(...), the two loaders
main_build ==
    /\ pc = "build"
    /\ mode' = "train"
    /\ params' = 0
    /\ optSteps' = 0
    /\ grad' = 0
    /\ bn_stats' = 0
    /\ pc' = "loop"
    /\ UNCHANGED <<script, nTrain, nTest, firstTest, tpc, epoch, i,
                   grad_enabled, loss, loss_sum, batch_ops, dirExists, fsLog>>
    /\ UNCHANGED <<loss_fn, ckpt_log>>
    /\ UNCHANGED netvars

\* Faulty variant: the loop bound off by one, range(1, epochs + 2).
main_loop_one_more ==
    /\ pc = "loop"
    /\ IF epoch <= epochs(script)
       THEN /\ epoch' = epoch + 1
            /\ pc' = "train"
            /\ tpc' = "enter"
       ELSE /\ pc' = "done"
            /\ UNCHANGED <<epoch, tpc>>
    /\ UNCHANGED <<script, nTrain, nTest, firstTest, i, mode, grad_enabled,
                   params, optSteps, grad, bn_stats, loss, loss_sum,
                   batch_ops, dirExists, fsLog>>
    /\ UNCHANGED <<loss_fn, ckpt_log>>
    /\ UNCHANGED netvars

\* for epoch in range(1, epochs + 1): train(...)
main_loop ==
    /\ pc = "loop"
    /\ IF epoch < epochs(script)
       THEN /\ epoch' = epoch + 1
            /\ pc' = "train"
            /\ tpc' = "enter"
       ELSE /\ pc' = "done"
            /\ UNCHANGED <<epoch, tpc>>
    /\ UNCHANGED <<script, nTrain, nTest, firstTest, i, mode, grad_enabled,
                   params, optSteps, grad, bn_stats, loss, loss_sum,
                   batch_ops, dirExists, fsLog>>
    /\ UNCHANGED <<loss_fn, ckpt_log>>
    /\ UNCHANGED netvars

(***************************************************************************)
(* train(model, device, train_loader, optimizer, epoch)                    *)
(***************************************************************************)
\* model.train(); train_loss = 0
train_enter ==
    /\ pc = "train" /\ tpc = "enter"
    /\ mode' = "train"
    /\ loss_sum' = 0
    /\ i' = 0
    /\ tpc' = "next"
    /\ UNCHANGED <<script, nTrain, nTest, firstTest, pc, epoch, grad_enabled,
                   params, optSteps, grad, bn_stats, loss, batch_ops,
                   dirExists, fsLog>>
    /\ UNCHANGED <<loss_fn, ckpt_log>>
    /\ UNCHANGED netvars

\* Faulty variant: main goes from train(...) straight to the checkpoint.
train_next_skips_test ==
    /\ pc = "train" /\ tpc = "next"
    /\ IF i < nTrain
       THEN /\ tpc' = "zero_grad"
            /\ batch_ops' = <<>>
            /\ UNCHANGED <<pc, loss, loss_sum, i>>
       ELSE /\ pc' = "save"
            /\ tpc' = "none"
            /\ loss' = 0
            /\ loss_sum' = 0
            /\ i' = 0
            /\ batch_ops' = <<>>
    /\ UNCHANGED <<script, nTrain, nTest, firstTest, epoch, mode,
                   grad_enabled, params, optSteps, grad, bn_stats, dirExists,
                   fsLog>>
    /\ UNCHANGED <<loss_fn, ckpt_log>>
    /\ UNCHANGED netvars

\* for i, (data, _) in progress: data = data.to(device); on exhaustion the
\* function returns to main, which calls test(...)
train_next ==
    /\ pc = "train" /\ tpc = "next"
    /\ IF i < nTrain
       THEN /\ tpc' = "zero_grad"
            /\ batch_ops' = <<>>
            /\ UNCHANGED <<pc, loss, loss_sum, i>>
       ELSE /\ pc' = "test"
            /\ tpc' = "enter"
            /\ loss' = 0
            /\ loss_sum' = 0
            /\ i' = 0
            /\ batch_ops' = <<>>
    /\ UNCHANGED <<script, nTrain, nTest, firstTest, epoch, mode,
                   grad_enabled, params, optSteps, grad, bn_stats, dirExists,
                   fsLog>>
    /\ UNCHANGED <<loss_fn, ckpt_log>>
    /\ UNCHANGED netvars

\* Faulty variant: the call of optimizer.zero_grad() left out.
train_zero_grad_missing ==
    /\ pc = "train" /\ tpc = "zero_grad"
    /\ tpc' = "forward"
    /\ batch_ops' = Append(batch_ops, "zero_grad")
    /\ UNCHANGED <<script, nTrain, nTest, firstTest, pc, epoch, i, mode,
                   grad_enabled, params, optSteps, grad, bn_stats, loss,
                   loss_sum, dirExists, fsLog>>
    /\ UNCHANGED <<loss_fn, ckpt_log>>
    /\ UNCHANGED netvars

\* optimizer.zero_grad()
train_zero_grad ==
    /\ pc = "train" /\ tpc = "zero_grad"
    /\ grad' = 0
    /\ batch_ops' = Append(batch_ops, "zero_grad")
    /\ tpc' = "forward"
    /\ UNCHANGED <<script, nTrain, nTest, firstTest, pc, epoch, i, mode,
                   grad_enabled, params, optSteps, bn_stats, loss, loss_sum,
                   dirExists, fsLog>>
    /\ UNCHANGED <<loss_fn, ckpt_log>>
    /\ UNCHANGED netvars

\* The effect of one forward pass on the BatchNorm running statistics: they
\* are updated in training mode only.
forward_stats(s, m, b) == IF HasBatchNorm(s) /\ m = "train" THEN b + 1 ELSE b

\* output = model(data)  /  model.conditional_forward(data, labels)
train_forward ==
    /\ pc = "train" /\ tpc = "forward"
    /\ bn_stats' = forward_stats(script, mode, bn_stats)
    /\ batch_ops' = Append(batch_ops, "forward")
    /\ tpc' = "loss"
    /\ UNCHANGED <<script, nTrain, nTest, firstTest, pc, epoch, i, mode,
                   grad_enabled, params, optSteps, grad, loss, loss_sum,
                   dirExists, fsLog>>
    /\ UNCHANGED <<loss_fn, ckpt_log>>
    /\ UNCHANGED netvars

\* The loss function train() calls on (output, data).
train_loss_fn(s) ==
    IF s = "feedforward" THEN "binary_cross_entropy" ELSE "mse_loss"

\* Faulty variant: test() of every script measures the squared error.
test_loss_fn_mse(s) == "mse_loss"

\* The loss function test() calls on (output, data).
test_loss_fn(s) ==
    IF s = "feedforward" THEN "binary_cross_entropy" ELSE "mse_loss"

\* loss = F.binary_cross_entropy(output, data)  /  F.mse_loss(output, data)
train_compute_loss ==
    /\ pc = "train" /\ tpc = "loss"
    /\ loss' \in 0..MaxLoss
    /\ loss_fn' = [loss_fn EXCEPT !.train = train_loss_fn(script)]
    /\ batch_ops' = Append(batch_ops, "loss")
    /\ tpc' = "backward"
    /\ UNCHANGED <<script, nTrain, nTest, firstTest, pc, epoch, i, mode,
                   grad_enabled, params, optSteps, grad, bn_stats, loss_sum,
                   dirExists, fsLog>>
    /\ UNCHANGED ckpt_log
    /\ UNCHANGED netvars

\* loss.backward(): gradients are added to what .grad already holds
train_backward ==
    /\ pc = "train" /\ tpc = "backward"
    /\ grad' = grad + 1
    /\ batch_ops' = Append(batch_ops, "backward")
    /\ tpc' = "step"
    /\ UNCHANGED <<script, nTrain, nTest, firstTest, pc, epoch, i, mode,
                   grad_enabled, params, optSteps, bn_stats, loss, loss_sum,
                   dirExists, fsLog>>
    /\ UNCHANGED <<loss_fn, ckpt_log>>
    /\ UNCHANGED netvars

\* optimizer.step()
train_step ==
    /\ pc = "train" /\ tpc = "step"
    /\ params' = params + 1
    /\ optSteps' = optSteps + 1
    /\ batch_ops' = Append(batch_ops, "step")
    /\ tpc' = "accumulate"
    /\ UNCHANGED <<script, nTrain, nTest, firstTest, pc, epoch, i, mode,
                   grad_enabled, grad, bn_stats, loss, loss_sum, dirExists,
                   fsLog>>
    /\ UNCHANGED <<loss_fn, ckpt_log>>
    /\ UNCHANGED netvars

\* train_loss += loss; progress.set_description(...); next iteration
train_accumulate ==
    /\ pc = "train" /\ tpc = "accumulate"
    /\ loss_sum' = loss_sum + loss
    /\ loss' = 0
    /\ i' = i + 1
    /\ tpc' = "next"
    /\ UNCHANGED <<script, nTrain, nTest, firstTest, pc, epoch, mode,
                   grad_enabled, params, optSteps, grad, bn_stats, batch_ops,
                   dirExists, fsLog>>
    /\ UNCHANGED <<loss_fn, ckpt_log>>
    /\ UNCHANGED netvars

(***************************************************************************)
(* test(model, device, test_loader, folder, epoch)                         *)
(***************************************************************************)
\* model.eval(); test_loss = 0; with torch.no_grad():
test_enter ==
    /\ pc = "test" /\ tpc = "enter"
    /\ mode' = "eval"
    /\ grad_enabled' = FALSE
    /\ loss_sum' = 0
    /\ i' = 0
    /\ tpc' = "next"
    /\ UNCHANGED <<script, nTrain, nTest, firstTest, pc, epoch, params,
                   optSteps, grad, bn_stats, loss, batch_ops, dirExists,
                   fsLog>>
    /\ UNCHANGED <<loss_fn, ckpt_log>>
    /\ UNCHANGED netvars

\* for i, (data, _) in progress: data = data.to(device); on exhaustion the
\* no_grad block is left and the function returns to main.  The loader
\* decides how many images a batch holds: test_batch_size, or fewer when the
\* dataset runs short.
test_next ==
    /\ pc = "test" /\ tpc = "next"
    /\ IF i < nTest
       THEN /\ tpc' = "forward"
            /\ IF i = 0
               THEN firstTest' \in {test_batch_size, test_batch_size - 1}
               ELSE UNCHANGED firstTest
            /\ UNCHANGED <<pc, grad_enabled, loss, loss_sum, i>>
       ELSE /\ pc' = "save"
            /\ tpc' = "none"
            /\ grad_enabled' = TRUE
            /\ loss' = 0
            /\ loss_sum' = 0
            /\ i' = 0
            /\ UNCHANGED firstTest
    /\ UNCHANGED <<script, nTrain, nTest, epoch, mode, params,
                   optSteps, grad, bn_stats, batch_ops, dirExists, fsLog>>
    /\ UNCHANGED <<loss_fn, ckpt_log>>
    /\ UNCHANGED netvars

\* Faulty variant: the body of the training loop left in test(), optimizer step
\* included.
test_forward_with_step ==
    /\ pc = "test" /\ tpc = "forward"
    /\ bn_stats' = forward_stats(script, mode, bn_stats)
    /\ params' = params + 1
    /\ optSteps' = optSteps + 1
    /\ tpc' = "loss"
    /\ UNCHANGED <<script, nTrain, nTest, firstTest, pc, epoch, i, mode,
                   grad_enabled, grad, loss, loss_sum, batch_ops, dirExists,
                   fsLog>>
    /\ UNCHANGED <<loss_fn, ckpt_log>>
    /\ UNCHANGED netvars

\* output = model(data)  /  model.conditional_forward(data, labels)
test_forward ==
    /\ pc = "test" /\ tpc = "forward"
    /\ bn_stats' = forward_stats(script, mode, bn_stats)
    /\ tpc' = "loss"
    /\ UNCHANGED <<script, nTrain, nTest, firstTest, pc, epoch, i, mode,
                   grad_enabled, params, optSteps, grad, loss, loss_sum,
                   batch_ops, dirExists, fsLog>>
    /\ UNCHANGED <<loss_fn, ckpt_log>>
    /\ UNCHANGED netvars

\* test_loss += F.binary_cross_entropy(output, data) / F.mse_loss(output, data)
test_accumulate ==
    /\ pc = "test" /\ tpc = "loss"
    /\ \E l \in 0..MaxLoss : loss_sum' = loss_sum + l
    /\ loss_fn' = [loss_fn EXCEPT !.test = test_loss_fn(script)]
    /\ tpc' = "branch"
    /\ UNCHANGED <<script, nTrain, nTest, firstTest, pc, epoch, i, mode,
                   grad_enabled, params, optSteps, grad, bn_stats, loss,
                   batch_ops, dirExists, fsLog>>
    /\ UNCHANGED ckpt_log
    /\ UNCHANGED netvars

\* Faulty variant: the test "if i == 0" left out.
test_branch_every_batch ==
    /\ pc = "test" /\ tpc = "branch"
    /\ tpc' = "view"
    /\ UNCHANGED <<script, nTrain, nTest, firstTest, pc, epoch, i, mode,
                   grad_enabled, params, optSteps, grad, bn_stats, loss,
                   loss_sum, batch_ops, dirExists, fsLog>>
    /\ UNCHANGED <<loss_fn, ckpt_log>>
    /\ UNCHANGED netvars

\* if i == 0:
test_branch ==
    /\ pc = "test" /\ tpc = "branch"
    /\ IF i = 0
       THEN /\ tpc' = "view"
            /\ UNCHANGED i
       ELSE /\ tpc' = "next"
            /\ i' = i + 1
    /\ UNCHANGED <<script, nTrain, nTest, firstTest, pc, epoch, mode,
                   grad_enabled, params, optSteps, grad, bn_stats, loss,
                   loss_sum, batch_ops, dirExists, fsLog>>
    /\ UNCHANGED <<loss_fn, ckpt_log>>
    /\ UNCHANGED netvars

\* Faulty variant: the reshape takes the batch's own size, view(data.size(0), ...).
test_view_any_size ==
    /\ pc = "test" /\ tpc = "view"
    /\ tpc' = "save_output"
    /\ UNCHANGED <<script, nTrain, nTest, firstTest, pc, epoch, i, mode,
                   grad_enabled, params, optSteps, grad, bn_stats, loss,
                   loss_sum, batch_ops, dirExists, fsLog>>
    /\ UNCHANGED <<loss_fn, ckpt_log>>
    /\ UNCHANGED netvars

\* output = output.view(100, ...); data = data.view(100, ...): the reshape
\* raises unless the batch holds exactly 100 images; nothing catches it
test_view ==
    /\ pc = "test" /\ tpc = "view"
    /\ IF firstTest = view_batch
       THEN /\ tpc' = "save_output"
            /\ UNCHANGED pc
       ELSE /\ pc' = "failed"
            /\ tpc' = "none"
    /\ UNCHANGED <<script, nTrain, nTest, firstTest, epoch, i, mode,
                   grad_enabled, params, optSteps, grad, bn_stats, loss,
                   loss_sum, batch_ops, dirExists, fsLog>>
    /\ UNCHANGED <<loss_fn, ckpt_log>>
    /\ UNCHANGED netvars

\* save_image(output.cpu(), f'{folder}/{epoch}.png', nrow=10)
test_save_output ==
    /\ pc = "test" /\ tpc = "save_output"
    /\ IF dirExists
       THEN /\ fsLog' = Append(fsLog,
                               <<"write", output_image_path(script, epoch)>>)
            /\ tpc' = "save_data"
            /\ UNCHANGED pc
       ELSE /\ pc' = "failed"
            /\ tpc' = "none"
            /\ UNCHANGED fsLog
    /\ UNCHANGED <<script, nTrain, nTest, firstTest, epoch, i, mode,
                   grad_enabled, params, optSteps, grad, bn_stats, loss,
                   loss_sum, batch_ops, dirExists>>
    /\ UNCHANGED <<loss_fn, ckpt_log>>
    /\ UNCHANGED netvars

\* save_image(data.cpu(), <baseline file of this epoch>, nrow=10)
test_save_data ==
    /\ pc = "test" /\ tpc = "save_data"
    /\ IF dirExists
       THEN /\ fsLog' = Append(fsLog,
                               <<"write", data_image_path(script, epoch)>>)
            /\ tpc' = "next"
            /\ i' = i + 1
            /\ UNCHANGED pc
       ELSE /\ pc' = "failed"
            /\ tpc' = "none"
            /\ UNCHANGED <<fsLog, i>>
    /\ UNCHANGED <<script, nTrain, nTest, firstTest, epoch, mode,
                   grad_enabled, params, optSteps, grad, bn_stats, loss,
                   loss_sum, batch_ops, dirExists>>
    /\ UNCHANGED <<loss_fn, ckpt_log>>
    /\ UNCHANGED netvars

(***************************************************************************)
(* main: checkpoint.                                                       *)
(***************************************************************************)
\* model.state_dict(): the parameters and the buffers as they stand.
state_dict(p, b) == [params |-> p, buffers |-> b]

\* Faulty variant: the file gets the state the model was built with.
main_save_initial_weights ==
    /\ pc = "save"
    /\ IF ~save_model
       THEN /\ pc' = "loop"
            /\ UNCHANGED <<fsLog, ckpt_log>>
       ELSE IF dirExists
       THEN /\ fsLog' = Append(fsLog,
                               <<"write", checkpoint_path(script, epoch)>>)
            /\ ckpt_log' = Append(ckpt_log,
                                  [path |-> checkpoint_path(script, epoch),
                                   state_dict |-> state_dict(0, 0)])
            /\ pc' = "loop"
       ELSE /\ pc' = "failed"
            /\ UNCHANGED <<fsLog, ckpt_log>>
    /\ UNCHANGED <<script, nTrain, nTest, firstTest, tpc, epoch, i, mode,
                   grad_enabled, params, optSteps, grad, bn_stats, loss,
                   loss_sum, batch_ops, dirExists>>
    /\ UNCHANGED loss_fn
    /\ UNCHANGED netvars

\* if save_model: torch.save(model.state_dict(), f"{folder}/{epoch}.pt")
main_save ==
    /\ pc = "save"
    /\ IF ~save_model
       THEN /\ pc' = "loop"
            /\ UNCHANGED <<fsLog, ckpt_log>>
       ELSE IF dirExists
       THEN /\ fsLog' = Append(fsLog,
                               <<"write", checkpoint_path(script, epoch)>>)
            /\ ckpt_log' = Append(ckpt_log,
                                  [path |-> checkpoint_path(script, epoch),
                                   state_dict |-> state_dict(params, bn_stats)])
            /\ pc' = "loop"
       ELSE /\ pc' = "failed"
            /\ UNCHANGED <<fsLog, ckpt_log>>
    /\ UNCHANGED <<script, nTrain, nTest, firstTest, tpc, epoch, i, mode,
                   grad_enabled, params, optSteps, grad, bn_stats, loss,
                   loss_sum, batch_ops, dirExists>>
    /\ UNCHANGED loss_fn
    /\ UNCHANGED netvars

Next ==
    \/ main_makedirs
    \/ main_build
    \/ main_loop
    \/ train_enter
    \/ train_next
    \/ train_zero_grad
    \/ train_forward
    \/ train_compute_loss
    \/ train_backward
    \/ train_step
    \/ train_accumulate
    \/ test_enter
    \/ test_next
    \/ test_forward
    \/ test_accumulate
    \/ test_branch
    \/ test_view
    \/ test_save_output
    \/ test_save_data
    \/ main_save

Spec == Init /\ [][Next]_vars

\* One thread of control that never blocks: whatever step is enabled is taken.
FairSpec == Spec /\ WF_vars(Next)

(***************************************************************************)
(* Part II.  The layer stacks and the shapes of the tensors they produce.  *)
(* A shape lists the axes after the batch axis: <<c, h, w>> for an image   *)
(* batch, <<n>> for a batch of vectors.  Bad stands for the library        *)
(* raising a shape error.                                                  *)
(***************************************************************************)
Bad == <<>>

\* Spatial size after nn.Conv2d / nn.ConvTranspose2d (dilation 1).
conv_out(n, k, s, p) == ((n + 2 * p - k) \div s) + 1
conv_transpose_out(n, k, s, p, op) == (n - 1) * s - 2 * p + k + op

\* Layer constructors, with the arguments the scripts pass.
Conv2d(cin, cout, k, s, p) ==
    [kind |-> "Conv2d", cin |-> cin, cout |-> cout, k |-> k, s |-> s, p |-> p]
ConvTranspose2d(cin, cout, k, s, op) ==
    [kind |-> "ConvTranspose2d", cin |-> cin, cout |-> cout, k |-> k,
     s |-> s, p |-> 0, op |-> op]
Linear(cin, cout) == [kind |-> "Linear", cin |-> cin, cout |-> cout]
Activation(fn) == [kind |-> "Activation", fn |-> fn]
BatchNorm2d(c) == [kind |-> "BatchNorm2d", c |-> c]
ConditionalBatchNorm2d(features, classes) ==
    [kind |-> "ConditionalBatchNorm2d", c |-> features, classes |-> classes]
Sequential(ls) == [kind |-> "Sequential", layers |-> ls]
\* x + layers(x)
Residual(ls) == [kind |-> "Residual", layers |-> ls]

RECURSIVE out_shape(_, _)
RECURSIVE seq_shape(_, _)

\* The shape a layer makes of a tensor of shape sh.
out_shape(l, sh) ==
    IF sh = Bad THEN Bad
    ELSE CASE l.kind = "Conv2d" ->
                IF /\ Len(sh) = 3
                   /\ sh[1] = l.cin
                   /\ sh[2] + 2 * l.p >= l.k
                   /\ sh[3] + 2 * l.p >= l.k
                THEN <<l.cout, conv_out(sh[2], l.k, l.s, l.p),
                       conv_out(sh[3], l.k, l.s, l.p)>>
                ELSE Bad
           [] l.kind = "ConvTranspose2d" ->
                IF Len(sh) = 3 /\ sh[1] = l.cin
                THEN <<l.cout,
                       conv_transpose_out(sh[2], l.k, l.s, l.p, l.op),
                       conv_transpose_out(sh[3], l.k, l.s, l.p, l.op)>>
                ELSE Bad
           [] l.kind = "Linear" ->
                IF Len(sh) >= 1 /\ sh[Len(sh)] = l.cin
                THEN SubSeq(sh, 1, Len(sh) - 1) \o <<l.cout>>
                ELSE Bad
           [] l.kind = "Activation" -> sh
           [] l.kind \in {"BatchNorm2d", "ConditionalBatchNorm2d"} ->
                IF Len(sh) = 3 /\ sh[1] = l.c THEN sh ELSE Bad
           [] l.kind = "Sequential" -> seq_shape(l.layers, sh)
           [] l.kind = "Residual" ->
                IF seq_shape(l.layers, sh) = sh THEN sh ELSE Bad

seq_shape(ls, sh) ==
    IF ls = <<>> THEN sh ELSE seq_shape(Tail(ls), out_shape(Head(ls), sh))

(***************************************************************************)
(* The interval the values of a tensor lie in: "zero" {0}, "unit" [0,1],   *)
(* "sym_unit" [-1,1], "nonneg" [0,inf), "above_minus_one" [-1,inf),        *)
(* "real" any finite value.  A layer with weights can produce any value,   *)
(* whatever it is given; an activation maps into its own range.            *)
(***************************************************************************)
activation_range(fn) ==
    CASE fn = "relu" -> "nonneg"
      [] fn = "elu" -> "above_minus_one"
      [] fn = "sigmoid" -> "unit"
      [] fn = "tanh" -> "sym_unit"

RECURSIVE out_range(_, _)
RECURSIVE seq_range(_, _)

out_range(l, r) ==
    CASE l.kind = "Activation" -> activation_range(l.fn)
      [] l.kind = "Sequential" -> seq_range(l.layers, r)
      [] OTHER -> "real"

seq_range(ls, r) ==
    IF ls = <<>> THEN r ELSE seq_range(Tail(ls), out_range(Head(ls), r))

\* feedforward.py
ff_Encoder ==
    <<Linear(784, 512), Activation("relu"),
      Linear(512, 256), Activation("relu"),
      Linear(256, 128), Activation("relu"),
      Linear(128, 64), Activation("relu")>>

\* Faulty variant: the last layer's sigmoid replaced by the relu of the
\* layers before it.
ff_Decoder_relu_output ==
    <<Linear(64, 128), Activation("relu"),
      Linear(128, 256), Activation("relu"),
      Linear(256, 512), Activation("relu"),
      Linear(512, 784), Activation("relu")>>

ff_Decoder ==
    <<Linear(64, 128), Activation("relu"),
      Linear(128, 256), Activation("relu"),
      Linear(256, 512), Activation("relu"),
      Linear(512, 784), Activation("sigmoid")>>

\* convolutional_cifar.py
cc_Encoder ==
    <<Conv2d(3, 8, 3, 2, 0), Activation("relu"),
      Conv2d(8, 16, 3, 2, 0), Activation("relu"),
      Conv2d(16, 32, 3, 2, 0), Activation("relu"),
      Conv2d(32, 64, 3, 2, 0), Activation("relu")>>

\* Faulty variant: output_padding=1 left off the last transposed convolution.
cc_Decoder_no_output_padding ==
    <<ConvTranspose2d(64, 32, 3, 2, 0), Activation("relu"),
      ConvTranspose2d(32, 16, 3, 2, 0), Activation("relu"),
      ConvTranspose2d(16, 8, 3, 2, 0), Activation("relu"),
      ConvTranspose2d(8, 3, 3, 2, 0), Activation("tanh")>>

cc_Decoder ==
    <<ConvTranspose2d(64, 32, 3, 2, 0), Activation("relu"),
      ConvTranspose2d(32, 16, 3, 2, 0), Activation("relu"),
      ConvTranspose2d(16, 8, 3, 2, 0), Activation("relu"),
      ConvTranspose2d(8, 3, 3, 2, 1), Activation("tanh")>>

\* resnet_cifar.py
rc_BasicBlock(filters) ==
    Residual(<<Conv2d(filters, filters, 3, 1, 1), Activation("relu"),
               BatchNorm2d(filters),
               Conv2d(filters, filters, 3, 1, 1), Activation("relu"),
               BatchNorm2d(filters)>>)

rc_ELU_BatchNorm2d(filters) ==
    Sequential(<<Activation("elu"), BatchNorm2d(filters)>>)

rc_BiggerBlock(filters) ==
    Residual(<<rc_BasicBlock(filters), Activation("relu"),
               BatchNorm2d(filters),
               rc_BasicBlock(filters), Activation("relu"),
               BatchNorm2d(filters)>>)

rc_ResidualEncoder ==
    <<Conv2d(3, 16, 3, 1, 1), Activation("elu"),
      rc_BiggerBlock(16), rc_ELU_BatchNorm2d(16),
      Conv2d(16, 32, 3, 2, 0), Activation("elu"),
      rc_BiggerBlock(32), rc_ELU_BatchNorm2d(32),
      Conv2d(32, 64, 3, 2, 0), Activation("elu"),
      rc_BiggerBlock(64), rc_ELU_BatchNorm2d(64),
      Conv2d(64, 128, 3, 2, 0), Activation("elu"),
      rc_BiggerBlock(128), rc_ELU_BatchNorm2d(128),
      Conv2d(128, 256, 3, 2, 0)>>

rc_ResidualDecoder ==
    <<BatchNorm2d(256), ConvTranspose2d(256, 128, 3, 2, 0),
      rc_ELU_BatchNorm2d(128), rc_BiggerBlock(128), Activation("elu"),
      ConvTranspose2d(128, 64, 3, 2, 0),
      rc_ELU_BatchNorm2d(64), rc_BiggerBlock(64), Activation("elu"),
      ConvTranspose2d(64, 32, 3, 2, 0),
      rc_ELU_BatchNorm2d(32), rc_BiggerBlock(32), Activation("elu"),
      ConvTranspose2d(32, 16, 3, 2, 1),
      rc_ELU_BatchNorm2d(16), rc_BiggerBlock(16), Activation("elu"),
      Conv2d(16, 3, 3, 1, 1),
      Activation("tanh")>>

\* conditional_autoencoder.py
classes == 10

\* Autoencoder.__init__: the last of the four assignments to filters
filters == <<64, 128, 256, 512, 1024>>

ca_BasicBlock(f) ==
    Residual(<<Conv2d(f, f, 3, 1, 1), ConditionalBatchNorm2d(f, classes),
               Activation("relu"),
               Conv2d(f, f, 3, 1, 1), ConditionalBatchNorm2d(f, classes)>>)

ca_ELU_BatchNorm2d(f) ==
    Sequential(<<Activation("elu"), ConditionalBatchNorm2d(f, classes)>>)

\* The layers in the order ResidualEncoder.conditional_forward applies them;
\* filters[0] of the source is f[1] here.
ca_ResidualEncoder(f) ==
    <<Conv2d(3, f[1], 3, 1, 1), Activation("elu"),
      ca_BasicBlock(f[1]), ca_ELU_BatchNorm2d(f[1]),
      Conv2d(f[1], f[2], 3, 2, 0), Activation("elu"),
      ca_BasicBlock(f[2]), ca_ELU_BatchNorm2d(f[2]),
      Conv2d(f[2], f[3], 3, 2, 0), Activation("elu"),
      ca_BasicBlock(f[3]), ca_ELU_BatchNorm2d(f[3]),
      Conv2d(f[3], f[4], 3, 2, 0), Activation("elu"),
      ca_BasicBlock(f[4]), ca_ELU_BatchNorm2d(f[4]),
      Conv2d(f[4], f[5], 3, 2, 0)>>

\* The layers in the order ResidualDecoder.conditional_forward applies them.
ca_ResidualDecoder(f) ==
    <<ConvTranspose2d(f[5], f[4], 3, 2, 0),
      ca_ELU_BatchNorm2d(f[4]), ca_BasicBlock(f[4]), Activation("elu"),
      ConvTranspose2d(f[4], f[3], 3, 2, 0),
      ca_ELU_BatchNorm2d(f[3]), ca_BasicBlock(f[3]), Activation("elu"),
      ConvTranspose2d(f[3], f[2], 3, 2, 0),
      ca_ELU_BatchNorm2d(f[2]), ca_BasicBlock(f[2]), Activation("elu"),
      ConvTranspose2d(f[2], f[1], 3, 2, 1),
      ca_ELU_BatchNorm2d(f[1]), ca_BasicBlock(f[1]), Activation("elu"),
      Conv2d(f[1], 3, 3, 1, 1),
      Activation("tanh")>>

\* Autoencoder.__init__ of each script: self.encoder, self.decoder
encoder(s) ==
    CASE s = "feedforward" -> ff_Encoder
      [] s = "convolutional_cifar" -> cc_Encoder
      [] s = "resnet_cifar" -> rc_ResidualEncoder
      [] s = "conditional_autoencoder" -> ca_ResidualEncoder(filters)

decoder(s) ==
    CASE s = "feedforward" -> ff_Decoder
      [] s = "convolutional_cifar" -> cc_Decoder
      [] s = "resnet_cifar" -> rc_ResidualDecoder
      [] s = "conditional_autoencoder" -> ca_ResidualDecoder(filters)

\* What train/test hand to the model: feedforward flattens each image,
\* data.view(data.size(0), -1); the others pass the batch as it is.
model_input(s, sh) ==
    IF s = "feedforward" THEN <<sh[1] * sh[2] * sh[3]>> ELSE sh

\* The training state is not part of the forward-pass specifications.
LoopOff ==
    /\ script = "none"
    /\ nTrain = 0
    /\ nTest = 0
    /\ firstTest = 0
    /\ pc = "off"
    /\ tpc = "none"
    /\ epoch = 0
    /\ i = 0
    /\ mode = "train"
    /\ grad_enabled = TRUE
    /\ params = 0
    /\ optSteps = 0
    /\ grad = 0
    /\ bn_stats = 0
    /\ loss = 0
    /\ loss_sum = 0
    /\ batch_ops = <<>>
    /\ dirExists = FALSE
    /\ fsLog = <<>>
    /\ loss_fn = [train |-> "none", test |-> "none"]
    /\ ckpt_log = <<>>

ImageSides == 27..MaxImageSide

\* The batch sizes the four mains ask their loaders for.
Batches == {test_batch_size, 64, 128}

\* An all-zero batch, MNIST-like pixels in [0,1], CIFAR-like pixels in [-1,1].
InputRanges == {"zero", "unit", "sym_unit"}

\* A batch of c x h x h images arrives from the loader.
ShapeInit ==
    /\ LoopOff
    /\ net \in Scripts
    /\ x_shape \in {<<c, h, h>> : c \in {1, 3}, h \in ImageSides}
    /\ stage = "input"
    /\ layer = 0
    /\ shape = <<>>
    /\ batch \in Batches
    /\ x_range \in InputRanges
    /\ value_range = "none"
    /\ labels = <<>>
    /\ trace = <<>>

\* output = model(data): Autoencoder.forward enters the encoder
call_model ==
    /\ stage = "input"
    /\ shape' = model_input(net, x_shape)
    /\ value_range' = x_range
    /\ stage' = "encoder"
    /\ layer' = 0
    /\ UNCHANGED <<net, x_shape, batch, x_range, labels, trace>>
    /\ UNCHANGED loopvars

\* The next layer of the running stack; a shape error ends the pass.
apply_layer(stack) ==
    /\ layer < Len(stack)
    /\ LET out == out_shape(stack[layer + 1], shape)
       IN IF out = Bad
          THEN /\ stage' = "error"
               /\ UNCHANGED <<layer, shape, value_range>>
          ELSE /\ shape' = out
               /\ value_range' = out_range(stack[layer + 1], value_range)
               /\ layer' = layer + 1
               /\ UNCHANGED stage
    /\ UNCHANGED <<net, x_shape, batch, x_range, labels, trace>>
    /\ UNCHANGED loopvars

\* x = self.encoder(x), layer by layer
encoder_layer ==
    /\ stage = "encoder"
    /\ apply_layer(encoder(net))

\* x = self.decoder(x): the latent is handed to the decoder
enter_decoder ==
    /\ stage = "encoder"
    /\ layer = Len(encoder(net))
    /\ stage' = "decoder"
    /\ layer' = 0
    /\ UNCHANGED <<net, x_shape, shape, batch, x_range, value_range, labels,
                   trace>>
    /\ UNCHANGED loopvars

\* x = self.decoder(x), layer by layer
decoder_layer ==
    /\ stage = "decoder"
    /\ apply_layer(decoder(net))

\* return x
return_output ==
    /\ stage = "decoder"
    /\ layer = Len(decoder(net))
    /\ stage' = "output"
    /\ UNCHANGED <<net, layer, x_shape, shape, batch, x_range, value_range,
                   labels, trace>>
    /\ UNCHANGED loopvars

ShapeNext ==
    \/ call_model
    \/ encoder_layer
    \/ enter_decoder
    \/ decoder_layer
    \/ return_output

ShapeSpec == ShapeInit /\ [][ShapeNext]_vars

(***************************************************************************)
(* Part III.  conditional_autoencoder.py: which labels reach which layer.  *)
(* A forward pass is described by the layers it applies, in order, each    *)
(* as <<name, kind, labels used>>; only a ConditionalBatchNorm2d uses      *)
(* labels, the others carry <<>>.                                          *)
(***************************************************************************)
plain(name, kind) == <<<<name, kind, <<>>>>>>

\* ConditionalBatchNorm2d.forward(x, y): self.bn(x), then the rows of
\* self.embed that y selects as scale and shift
ConditionalBatchNorm2d_forward(name, y) ==
    <<<<name, "ConditionalBatchNorm2d", y>>>>

\* Faulty variant: the default label vector made of ones.
ones_long(batch_size) == [k \in 1..batch_size |-> 1]

\* y = torch.zeros(batch_size).to(x).long()
zeros_long(batch_size) == [k \in 1..batch_size |-> 0]

BasicBlock_conditional_forward(name, y) ==
    plain(name \o ".conv1", "Conv2d")
    \o ConditionalBatchNorm2d_forward(name \o ".bn1", y)
    \o plain(name \o ".relu", "relu")
    \o plain(name \o ".conv2", "Conv2d")
    \o ConditionalBatchNorm2d_forward(name \o ".bn2", y)
    \o plain(name \o ".skip", "add")

BasicBlock_forward(name, batch_size) ==
    BasicBlock_conditional_forward(name, zeros_long(batch_size))

ELU_BatchNorm2d_conditional_forward(name, y) ==
    plain(name \o ".elu", "elu")
    \o ConditionalBatchNorm2d_forward(name \o ".bn", y)

ELU_BatchNorm2d_forward(name, batch_size) ==
    ELU_BatchNorm2d_conditional_forward(name, zeros_long(batch_size))

ResidualEncoder_conditional_forward(name, y) ==
    plain(name \o ".conv5", "Conv2d")
    \o plain(name \o ".activate", "elu")
    \o BasicBlock_conditional_forward(name \o ".block4", y)
    \o ELU_BatchNorm2d_conditional_forward(name \o ".eb4", y)
    \o plain(name \o ".conv4", "Conv2d")
    \o plain(name \o ".activate", "elu")
    \o BasicBlock_conditional_forward(name \o ".block3", y)
    \o ELU_BatchNorm2d_conditional_forward(name \o ".eb3", y)
    \o plain(name \o ".conv3", "Conv2d")
    \o plain(name \o ".activate", "elu")
    \o BasicBlock_conditional_forward(name \o ".block2", y)
    \o ELU_BatchNorm2d_conditional_forward(name \o ".eb2", y)
    \o plain(name \o ".conv2", "Conv2d")
    \o plain(name \o ".activate", "elu")
    \o BasicBlock_conditional_forward(name \o ".block1", y)
    \o ELU_BatchNorm2d_conditional_forward(name \o ".eb1", y)
    \o plain(name \o ".conv1", "Conv2d")

ResidualEncoder_forward(name, batch_size) ==
    ResidualEncoder_conditional_forward(name, zeros_long(batch_size))

ResidualDecoder_conditional_forward(name, y) ==
    plain(name \o ".conv1", "ConvTranspose2d")
    \o ELU_BatchNorm2d_conditional_forward(name \o ".eb1", y)
    \o BasicBlock_conditional_forward(name \o ".block1", y)
    \o plain(name \o ".activate", "elu")
    \o plain(name \o ".conv2", "ConvTranspose2d")
    \o ELU_BatchNorm2d_conditional_forward(name \o ".eb2", y)
    \o BasicBlock_conditional_forward(name \o ".block2", y)
    \o plain(name \o ".activate", "elu")
    \o plain(name \o ".conv3", "ConvTranspose2d")
    \o ELU_BatchNorm2d_conditional_forward(name \o ".eb3", y)
    \o BasicBlock_conditional_forward(name \o ".block3", y)
    \o plain(name \o ".activate", "elu")
    \o plain(name \o ".conv4", "ConvTranspose2d")
    \o ELU_BatchNorm2d_conditional_forward(name \o ".eb4", y)
    \o BasicBlock_conditional_forward(name \o ".block4", y)
    \o plain(name \o ".activate", "elu")
    \o plain(name \o ".conv5", "Conv2d")
    \o plain(name \o ".out", "tanh")

ResidualDecoder_forward(name, batch_size) ==
    ResidualDecoder_conditional_forward(name, zeros_long(batch_size))

\* x = self.encoder(x)#.conditional_forward(x, y)
\* x = self.decoder.conditional_forward(x, y)
Autoencoder_conditional_forward(batch_size, y) ==
    ResidualEncoder_forward("encoder", batch_size)
    \o ResidualDecoder_conditional_forward("decoder", y)

Autoencoder_forward(batch_size) ==
    Autoencoder_conditional_forward(batch_size, zeros_long(batch_size))

\* The classes of the conditional variant that have both paths.
Modules == {"BasicBlock", "ELU_BatchNorm2d", "ResidualEncoder",
            "ResidualDecoder", "Autoencoder"}

\* m.forward(x) for a batch x of batch_size examples
forward(m, batch_size) ==
    CASE m = "BasicBlock" -> BasicBlock_forward("block", batch_size)
      [] m = "ELU_BatchNorm2d" -> ELU_BatchNorm2d_forward("eb", batch_size)
      [] m = "ResidualEncoder" -> ResidualEncoder_forward("encoder", batch_size)
      [] m = "ResidualDecoder" -> ResidualDecoder_forward("decoder", batch_size)
      [] m = "Autoencoder" -> Autoencoder_forward(batch_size)

\* m.conditional_forward(x, y) for a batch x of batch_size examples
conditional_forward(m, batch_size, y) ==
    CASE m = "BasicBlock" -> BasicBlock_conditional_forward("block", y)
      [] m = "ELU_BatchNorm2d" -> ELU_BatchNorm2d_conditional_forward("eb", y)
      [] m = "ResidualEncoder" ->
             ResidualEncoder_conditional_forward("encoder", y)
      [] m = "ResidualDecoder" ->
             ResidualDecoder_conditional_forward("decoder", y)
      [] m = "Autoencoder" -> Autoencoder_conditional_forward(batch_size, y)

\* A batch (data, labels) of 1..MaxBatch examples, one CIFAR-10 class each.
CondInit ==
    /\ LoopOff
    /\ net = "none"
    /\ stage = "batch"
    /\ layer = 0
    /\ x_shape = <<3, 32, 32>>
    /\ shape = <<>>
    /\ labels \in UNION {[1..n -> 0..(classes - 1)] : n \in 1..MaxBatch}
    /\ batch = Len(labels)
    /\ x_range = "sym_unit"
    /\ value_range = "sym_unit"
    /\ trace = <<>>

\* module(data)
call_forward ==
    /\ stage = "batch"
    /\ \E m \in Modules :
          /\ net' = m
          /\ trace' = forward(m, Len(labels))
    /\ stage' = "forward"
    /\ UNCHANGED <<layer, x_shape, shape, batch, x_range, value_range, labels>>
    /\ UNCHANGED loopvars

\* module.conditional_forward(data, labels)
call_conditional_forward ==
    /\ stage = "batch"
    /\ \E m \in Modules :
          /\ net' = m
          /\ trace' = conditional_forward(m, Len(labels), labels)
    /\ stage' = "conditional_forward"
    /\ UNCHANGED <<layer, x_shape, shape, batch, x_range, value_range, labels>>
    /\ UNCHANGED loopvars

CondNext ==
    \/ call_forward
    \/ call_conditional_forward

CondSpec == CondInit /\ [][CondNext]_vars

(***************************************************************************)
(* Properties of the training loop.                                        *)
(***************************************************************************)
Count(log, x) == Cardinality({k \in DOMAIN log : log[k] = x})

Written == {fsLog[k][2] : k \in {j \in DOMAIN fsLog : fsLog[j][1] = "write"}}

\* The state of section 4.4's state machine that main is in.
Phase ==
    CASE pc \in {"makedirs", "build"} -> "Idle"
      [] pc = "loop" /\ epoch = 0 -> "Idle"
      [] pc = "train" -> "TrainPhase"
      [] pc = "test" -> "EvalPhase"
      [] pc = "save" -> "Checkpoint"
      [] pc = "loop" /\ epoch > 0 -> "Checkpoint"
      [] pc = "done" -> "Done"
      [] pc = "failed" -> "Failed"

\* C1: every epoch runs TrainPhase, EvalPhase, Checkpoint in this order; the
\* next epoch's TrainPhase starts only once the checkpoint of the epoch
\* before is on disk; the epoch number moves by one, at the start of
\* TrainPhase only; nothing is skipped, repeated or reordered.  The only
\* other way out of a phase is the run dying in EvalPhase.
C1_PhaseOrder ==
    [][ (Phase' # Phase \/ epoch' # epoch) =>
          \/ /\ Phase = "Idle" /\ Phase' = "TrainPhase"
             /\ epoch = 0 /\ epoch' = 1
          \/ /\ Phase = "TrainPhase" /\ Phase' = "EvalPhase"
             /\ epoch' = epoch
          \/ /\ Phase = "EvalPhase" /\ Phase' = "Checkpoint"
             /\ epoch' = epoch
          \/ /\ Phase = "EvalPhase" /\ Phase' = "Failed"
             /\ epoch' = epoch
          \/ /\ Phase = "Checkpoint" /\ Phase' = "TrainPhase"
             /\ epoch' = epoch + 1
             /\ Count(fsLog, <<"write", folder(script) \o "/"
                                \o ToString(epoch) \o ".pt">>) = 1
          \/ /\ Phase = "Checkpoint" /\ Phase' = "Done"
             /\ epoch' = epoch
             /\ epoch = epochs(script) ]_vars

C1_Witness == pc = "train" /\ epoch = 3 /\ tpc = "zero_grad"

\* C2: the checkpoint of epoch e is written exactly once, when epoch e ends,
\* whatever the losses were; a checkpoint path is only ever written, never
\* read; at Done the checkpoints on disk are exactly 1.pt .. E.pt.
C2_Checkpoints ==
    LET E == epochs(script)
        ckpts == {folder(script) \o "/" \o ToString(e) \o ".pt" : e \in 1..E}
        ckptWrites == {k \in DOMAIN fsLog : fsLog[k][2] \in ckpts}
        due == IF pc \in {"loop", "done"} THEN epoch ELSE epoch - 1
    IN /\ \A k \in ckptWrites : fsLog[k][1] = "write"
       /\ \A j, k \in ckptWrites : fsLog[j][2] = fsLog[k][2] => j = k
       /\ {fsLog[k][2] : k \in ckptWrites} =
             {folder(script) \o "/" \o ToString(e) \o ".pt" : e \in 1..due}
       /\ pc = "done" => due = E

C2_Witness == pc = "done" /\ Len(fsLog) >= 3 * epochs(script)

\* C3: the two sample grids of an epoch are written while the first
\* evaluation batch (index 0) is processed and never again: once that batch
\* is through, each file has been written exactly once, however many
\* evaluation batches follow.
C3_FirstBatchOnly ==
    LET outputDue == IF \/ pc \in {"save", "loop", "done"}
                        \/ pc = "test" /\ (i >= 1 \/ tpc = "save_data")
                     THEN epoch ELSE epoch - 1
        dataDue == IF \/ pc \in {"save", "loop", "done"}
                      \/ pc = "test" /\ i >= 1
                   THEN epoch ELSE epoch - 1
        outputs == {output_image_path(script, e) : e \in 1..epochs(script)}
        datas == {data_image_path(script, e) : e \in 1..epochs(script)}
        outputWrites == {k \in DOMAIN fsLog : fsLog[k][2] \in outputs}
        dataWrites == {k \in DOMAIN fsLog : fsLog[k][2] \in datas}
    IN /\ \A j, k \in outputWrites : fsLog[j][2] = fsLog[k][2] => j = k
       /\ \A j, k \in dataWrites : fsLog[j][2] = fsLog[k][2] => j = k
       /\ {fsLog[k][2] : k \in outputWrites} =
             {output_image_path(script, e) : e \in 1..outputDue}
       /\ {fsLog[k][2] : k \in dataWrites} =
             {data_image_path(script, e) : e \in 1..dataDue}

C3_Witness == pc = "test" /\ nTest = 2 /\ i = 1 /\ tpc = "branch" /\ epoch = 2

\* C4: a training batch is processed as zero_grad, forward, loss, backward,
\* step, in this order; the gradient the optimizer step uses holds exactly
\* this batch's backward pass; exactly one optimizer step is made per batch,
\* so a training epoch over nTrain batches makes nTrain steps.
TrainOps == <<"zero_grad", "forward", "loss", "backward", "step">>

C4_TrainStep ==
    LET done == CASE tpc = "zero_grad" -> 0
                  [] tpc = "forward" -> 1
                  [] tpc = "loss" -> 2
                  [] tpc = "backward" -> 3
                  [] tpc = "step" -> 4
                  [] tpc = "accumulate" -> 5
                  [] OTHER -> 0
    IN /\ pc = "train" /\ tpc \notin {"enter", "next"} =>
             batch_ops = SubSeq(TrainOps, 1, done)
       /\ pc = "train" /\ tpc \in {"forward", "loss", "backward"} => grad = 0
       /\ pc = "train" /\ tpc \in {"step", "accumulate"} => grad = 1
       /\ pc = "train" =>
             optSteps = (epoch - 1) * nTrain + i
                        + (IF tpc = "accumulate" THEN 1 ELSE 0)
       /\ pc \in {"test", "save"} => optSteps = epoch * nTrain

C4_Witness == pc = "train" /\ tpc = "step" /\ epoch = 2 /\ i = 1

\* C5: no step of EvalPhase or Checkpoint changes the parameters, the
\* optimizer state, the stored gradients or the running statistics; the
\* parameters change in TrainPhase only.
C5_EvalFrame ==
    [][ /\ pc \in {"test", "save"} =>
             /\ params' = params
             /\ optSteps' = optSteps
             /\ grad' = grad
             /\ bn_stats' = bn_stats
        /\ (params' # params \/ optSteps' # optSteps) => pc = "train" ]_vars

C5_Witness ==
    pc = "save" /\ epoch = 2 /\ params = 2 * nTrain /\ HasBatchNorm(script)

\* C9 as stated: every file written is folder/e.pt, folder/e.png or
\* folder/baseline{e}.png for an epoch e, and the folder exists from startup.
C9_AsStated ==
    /\ pc # "makedirs" => dirExists
    /\ Written \subseteq
          UNION {{folder(script) \o "/" \o ToString(e) \o ".pt",
                  folder(script) \o "/" \o ToString(e) \o ".png",
                  folder(script) \o "/" \o "baseline" \o ToString(e) \o ".png"}
                 : e \in 1..epochs(script)}

\* C9 amended: as C9, except that the grid of originals is named
\* baseline{e}.png by feedforward and convolutional_cifar and
\* {e}baseline.png by conditional_autoencoder and resnet_cifar.
C9_OutputFiles ==
    /\ pc # "makedirs" => dirExists
    /\ Written # {} => dirExists /\ fsLog[1] = <<"exists", folder(script)>>
    /\ Written \subseteq
          UNION {{folder(script) \o "/" \o ToString(e) \o ".pt",
                  folder(script) \o "/" \o ToString(e) \o ".png",
                  IF script \in {"feedforward", "convolutional_cifar"}
                  THEN folder(script) \o "/" \o "baseline" \o ToString(e) \o ".png"
                  ELSE folder(script) \o "/" \o ToString(e) \o "baseline.png"}
                 : e \in 1..epochs(script)}

C9_Witness ==
    /\ fsLog # <<>>
    /\ fsLog[Len(fsLog)] = <<"write", "residual_cifar_1024_bottle/2baseline.png">>
    /\ <<"makedirs", "residual_cifar_1024_bottle">> \in {fsLog[k] : k \in DOMAIN fsLog}

\* C10: unless the reshape of the first evaluation batch fails, the run ends
\* in Done; it ends there after exactly 10 epochs (feedforward, conditional)
\* or 20 epochs (convolutional_cifar, resnet_cifar); the epoch counter
\* starts below 1, only ever moves up by one, and never passes that count.
HardcodedEpochs ==
    IF script \in {"feedforward", "conditional_autoencoder"} THEN 10 ELSE 20

C10_Terminates ==
    /\ <>(pc = "done" \/ pc = "failed")
    /\ [](pc = "failed" => firstTest # view_batch)
    /\ [](pc = "done" => epoch = HardcodedEpochs)
    /\ [](epoch <= HardcodedEpochs)
    /\ [][epoch' = epoch \/ epoch' = epoch + 1]_vars

C10_Witness == pc = "done" /\ script = "resnet_cifar" /\ epoch = 20

(***************************************************************************)
(* Properties of the layer stacks.                                         *)
(***************************************************************************)
\* The shape of one item of the dataset each script loads.
DeclaredShape ==
    IF net = "feedforward" THEN <<1, 28, 28>> ELSE <<3, 32, 32>>

\* C6: on an input of the declared shape no layer of any of the four
\* networks meets a shape it cannot take; the encoder's output is the
\* latent 64 (feedforward), 64x1x1 (convolutional_cifar), 256x1x1
\* (resnet_cifar), 1024x1x1 (conditional_autoencoder), which the decoder's
\* first layer accepts; and the decoder's output has the shape of the
\* model's input, 784 or 3x32x32.
C6_ShapeRoundTrip ==
    x_shape = DeclaredShape =>
        /\ stage # "error"
        /\ stage = "encoder" /\ layer = Len(encoder(net)) =>
              /\ shape = CASE net = "feedforward" -> <<64>>
                           [] net = "convolutional_cifar" -> <<64, 1, 1>>
                           [] net = "resnet_cifar" -> <<256, 1, 1>>
                           [] net = "conditional_autoencoder" -> <<1024, 1, 1>>
              /\ decoder(net)[1].kind \in
                     {"Linear", "ConvTranspose2d", "BatchNorm2d"}
              /\ IF decoder(net)[1].kind = "BatchNorm2d"
                 THEN decoder(net)[1].c = shape[1]
                 ELSE decoder(net)[1].cin = shape[1]
        /\ stage = "output" =>
              shape = IF net = "feedforward" THEN <<784>> ELSE <<3, 32, 32>>

C6_Witness ==
    /\ stage = "output"
    /\ net = "conditional_autoencoder"
    /\ x_shape = <<3, 32, 32>>
    /\ shape = <<3, 32, 32>>

(***************************************************************************)
(* Properties of the conditional variant.                                  *)
(***************************************************************************)
NormEntries(t) == {k \in DOMAIN t : t[k][2] = "ConditionalBatchNorm2d"}

\* C7 as stated: after Autoencoder.conditional_forward(x, y) every
\* ConditionalBatchNorm2d of the encoder and of the decoder has selected
\* its scale and shift with y.
C7_AsStated ==
    stage = "conditional_forward" /\ net = "Autoencoder" =>
        /\ NormEntries(trace) # {}
        /\ \A k \in NormEntries(trace) : trace[k][3] = labels

\* What the code does instead: the decoder's normalization layers use y,
\* the encoder's use class 0 for every example.
C7_DecoderOnly ==
    stage = "conditional_forward" /\ net = "Autoencoder" =>
        \A k \in NormEntries(trace) :
            trace[k][3] = IF k <= Len(ResidualEncoder_forward("encoder", Len(labels)))
                          THEN [j \in 1..Len(labels) |-> 0]
                          ELSE labels

\* C8: for each of the five modules forward(x) is conditional_forward(x, y0)
\* with y0 the all-zero label vector of x's batch size: the same layers in
\* the same order, which are also those conditional_forward visits under
\* any other label vector, and every ConditionalBatchNorm2d selects class 0
\* for every example.
C8_ForwardIsClassZero ==
    stage = "forward" =>
        LET n == Len(labels)
            y0 == [k \in 1..n |-> 0]
            cond0 == conditional_forward(net, n, y0)
            condy == conditional_forward(net, n, labels)
        IN /\ trace = cond0
           /\ NormEntries(trace) # {}
           /\ \A k \in NormEntries(trace) :
                 /\ Len(trace[k][3]) = n
                 /\ \A j \in 1..n : trace[k][3][j] = 0
           /\ Len(trace) = Len(condy)
           /\ \A k \in DOMAIN trace :
                 trace[k][1] = condy[k][1] /\ trace[k][2] = condy[k][2]

C8_Witness ==
    /\ stage = "forward"
    /\ net = "Autoencoder"
    /\ Len(labels) = 2
    /\ labels[1] # 0
    /\ Len(trace) > 40

\* C11: a batch of 100 all-zero 1x28x28 images, flattened as train() does,
\* passes every layer of the feedforward Autoencoder without a shape error
\* and comes out as a tensor of shape (100, 784) whose values lie in [0,1].
C11_ZeroBatch ==
    (/\ net = "feedforward"
     /\ x_shape = <<1, 28, 28>>
     /\ batch = 100
     /\ x_range = "zero")
    =>
    (/\ stage # "error"
     /\ stage = "output" =>
           /\ <<batch>> \o shape = <<100, 784>>
           /\ value_range = "unit")

C11_Witness ==
    /\ net = "feedforward"
    /\ x_shape = <<1, 28, 28>>
    /\ batch = 100
    /\ x_range = "zero"
    /\ stage = "output"
    /\ shape = <<784>>
    /\ value_range = "unit"

(***************************************************************************)
(* The output activation and the loss.                                     *)
(***************************************************************************)
\* The last layer of the decoder a script builds.
OutputLayer(s) == decoder(s)[Len(decoder(s))]

\* C12: in every script the decoder ends in sigmoid exactly when the loss is
\* binary cross-entropy and in tanh exactly when it is the mean squared
\* error, the decoder's output lies in the interval that activation gives,
\* and train() and test() of one script call the same loss function.
C12_LossPairing ==
    /\ OutputLayer(script).kind = "Activation"
    /\ OutputLayer(script).fn \in {"sigmoid", "tanh"}
    /\ \A ph \in {"train", "test"} :
          loss_fn[ph] # "none" =>
             /\ loss_fn[ph] \in {"binary_cross_entropy", "mse_loss"}
             /\ OutputLayer(script).fn = "sigmoid"
                   <=> loss_fn[ph] = "binary_cross_entropy"
             /\ OutputLayer(script).fn = "tanh"
                   <=> loss_fn[ph] = "mse_loss"
             /\ seq_range(decoder(script), "real")
                   = (IF loss_fn[ph] = "binary_cross_entropy"
                      THEN "unit" ELSE "sym_unit")
    /\ (loss_fn.train # "none" /\ loss_fn.test # "none")
          => loss_fn.train = loss_fn.test

C12_Witness ==
    /\ script = "feedforward"
    /\ pc = "done"
    /\ loss_fn = [train |-> "binary_cross_entropy",
                  test |-> "binary_cross_entropy"]
    /\ OutputLayer(script) = Activation("sigmoid")

(***************************************************************************)
(* What a checkpoint holds.                                                *)
(***************************************************************************)
\* C13: the k-th torch.save call writes k.pt with the parameters as they
\* stand after exactly k * B optimizer steps, B the number of training
\* batches of an epoch; from the end of an epoch's training phase to the
\* write of its checkpoint the parameters and Adam's step count stay at
\* epoch * B; and a later checkpoint holds strictly more updates than
\* every earlier one.
C13_CheckpointSnapshot ==
    /\ \A k \in DOMAIN ckpt_log :
          /\ ckpt_log[k].path = checkpoint_path(script, k)
          /\ ckpt_log[k].state_dict.params = k * nTrain
    /\ \A j, k \in DOMAIN ckpt_log :
          j < k => ckpt_log[j].state_dict.params
                     < ckpt_log[k].state_dict.params
    /\ pc \in {"test", "save"} =>
          /\ params = epoch * nTrain
          /\ optSteps = epoch * nTrain
    /\ (pc \in {"loop", "done"} /\ epoch > 0) =>
          /\ Len(ckpt_log) = epoch
          /\ ckpt_log[epoch].state_dict.params = params

C13_Witness ==
    /\ pc = "done"
    /\ nTrain = MaxTrainBatches
    /\ Len(ckpt_log) = epochs(script)
    /\ ckpt_log[2].state_dict.params = 2 * MaxTrainBatches
    /\ ckpt_log[Len(ckpt_log)].state_dict.params
          = epochs(script) * MaxTrainBatches

(***************************************************************************)
(* The reshape of the first evaluation batch.                              *)
(***************************************************************************)
\* The files of the epochs 1 .. e: checkpoint and the two sample grids.
FilesThrough(e) ==
    UNION {{checkpoint_path(script, d), output_image_path(script, d),
            data_image_path(script, d)} : d \in 1..e}

\* C14: the sample grids are reshaped to 100 images, which is the
\* test_batch_size of every main.  When the first evaluation batch of an
\* epoch does not hold exactly 100 images, the reshape fails with nothing
\* written for that epoch; the run makes no step after the failure; and at
\* that point the files on disk are exactly the three files of every epoch
\* before, so neither this epoch's checkpoint nor anything later exists.
C14_ReshapeFailure ==
    /\ [](view_batch = test_batch_size)
    /\ [][(pc = "test" /\ tpc = "view" /\ firstTest # view_batch)
            => (pc' = "failed" /\ fsLog' = fsLog /\ ckpt_log' = ckpt_log)]_vars
    /\ [][pc # "failed"]_vars
    /\ []((pc = "test" /\ tpc \in {"save_output", "save_data"})
            => firstTest = view_batch)
    /\ [](pc = "failed" =>
            /\ firstTest # view_batch
            /\ Written = FilesThrough(epoch - 1)
            /\ Len(ckpt_log) = epoch - 1)

C14_Witness ==
    /\ pc = "failed"
    /\ epoch = 3
    /\ firstTest = test_batch_size - 1
    /\ Written = FilesThrough(2)
    /\ Len(ckpt_log) = 2

====
